---- MODULE Spec2Model ----
(***************************************************************************)
(* The storage cleaner extension of jaeger-v2                              *)
(* (cmd/jaeger/internal/integration/storagecleaner/extension.go): a        *)
(* component with Start / Shutdown, one background goroutine running       *)
(* http.Server.ListenAndServe, and one route POST /purge whose handler     *)
(* calls Purge() on the storage factory resolved at Start.                 *)
(*                                                                         *)
(* Strings are sequences of pieces, so that fmt.Errorf's wrapping and      *)
(* http.Error's trailing newline are concatenations, not identities.       *)
(***************************************************************************)
EXTENDS Integers, Sequences, FiniteSets, TLC

\* ---------------------------------------------------------------- bounds
MaxConns == 2
MaxStops == 2
MaxStarts == 2

\* ------------------------------------------------------- program constants
Port == <<"9231">>
URL == "/purge"
StatusOK == 200
StatusInternalServerError == 500

\* -------------------------------------------------------------- inputs
Names == {"traces", "other"}
Kinds == {"absent", "plain", "purger"}
Methods == {"POST", "GET"}
Paths == {URL, "/"}
PurgeErrors == {"E1", "E2"}
Tasks == 1 .. MaxStarts
Conns == 1 .. MaxConns

\* ---------------------------------------------------------------- errors
Nil == <<>>
NotReturned == <<"<not returned>">>
ErrServerClosed == <<"http: Server closed">>
ErrBind == <<"listen tcp :", "9231", ": bind: address already in use">>
ErrAccept == <<"accept tcp: use of closed file">>
ErrDeadline == <<"context deadline exceeded">>
ErrNotFound == <<"cannot find extension 'jaeger_storage'">>

Errorf(prefix, err) == prefix \o err

IsSuffix(t, s) ==
    /\ Len(t) <= Len(s)
    /\ SubSeq(s, Len(s) - Len(t) + 1, Len(s)) = t

\* errors.Is walks the chain of %w-wrapped errors: each is a suffix here.
ErrorsIs(err, target) == err # Nil /\ IsSuffix(target, err)

Contains(s, t) ==
    \E i \in 1 .. Len(s) + 1 : \E j \in 0 .. Len(s) :
        SubSeq(s, i, j) = t

VARIABLES
    host,       \* the host's registry: backend name -> kind
    config,     \* c.config
    server,     \* c.server: 0 is nil, otherwise the id of the http.Server
    srv,        \* the http.Server objects, by id
    task,       \* the goroutines spawned by Start, by id
    port,       \* the task whose listener holds the TCP port, 0 when free
    conn,       \* the connections of the listener
    purges,     \* number of calls of purger.Purge()
    events,     \* what was passed to settings.ReportStatus
    startCalls, startRes,
    stopCalls,
    stopRes,    \* what the last Shutdown that returned has returned
    stopPc, ctxDone

vars == <<host, config, server, srv, task, port, conn, purges, events,
          startCalls, startRes, stopCalls, stopRes, stopPc, ctxDone>>

NoSrv == [inShutdown |-> FALSE, factory |-> "absent"]
NoTask == [pc |-> "none", srv |-> 0, err |-> Nil, ln |-> "none"]
NoConn == [st |-> "free", srv |-> 0, method |-> "", path |-> "", out |-> "none",
           res |-> Nil, status |-> 0, body |-> Nil]

Init ==
    /\ host \in [Names -> Kinds]
    /\ config = [TraceStorage |-> "traces", Port |-> Port]
    /\ server = 0
    /\ srv = [s \in Tasks |-> NoSrv]
    /\ task = [t \in Tasks |-> NoTask]
    /\ port = 0
    /\ conn = [c \in Conns |-> NoConn]
    /\ purges = 0
    /\ events = <<>>
    /\ startCalls = 0
    /\ startRes = NotReturned
    /\ stopCalls = 0
    /\ stopRes = NotReturned
    /\ stopPc = "idle"
    /\ ctxDone = FALSE

\* jaegerstorage.GetStorageFactory(name, host)
GetStorageFactory(name, h) ==
    IF h[name] = "absent"
        THEN [factory |-> "absent", err |-> ErrNotFound]
        ELSE [factory |-> h[name], err |-> Nil]

\* The host starts a component once, and never after it has shut it down.
\* Start without the check of GetStorageFactory's error.
StartUnchecked ==
    /\ startCalls = 0
    /\ stopCalls = 0
    /\ startCalls' = startCalls + 1
    /\ LET r == GetStorageFactory(config.TraceStorage, host)
           id == startCalls + 1
       IN  /\ server' = id
           /\ srv' = [srv EXCEPT ![id] = [inShutdown |-> FALSE,
                                          factory |-> r.factory]]
           /\ task' = [task EXCEPT ![id].pc = "spawned"]
           /\ startRes' = Nil
    /\ UNCHANGED <<host, config, port, conn, purges, events,
                   stopCalls, stopRes, stopPc, ctxDone>>

\* Start running the server itself instead of handing it to a goroutine: the
\* call does not return while the server runs.
StartBlocking ==
    /\ startCalls = 0
    /\ stopCalls = 0
    /\ startCalls' = startCalls + 1
    /\ LET r == GetStorageFactory(config.TraceStorage, host)
           id == startCalls + 1
       IN  IF r.err # Nil
               THEN /\ startRes' = Errorf(<<"cannot find storage factory '",
                                            config.TraceStorage, "': ">>, r.err)
                    /\ UNCHANGED <<server, srv, task>>
               ELSE /\ server' = id
                    /\ srv' = [srv EXCEPT ![id] = [inShutdown |-> FALSE,
                                                   factory |-> r.factory]]
                    /\ task' = [task EXCEPT ![id].pc = "spawned"]
                    /\ UNCHANGED startRes
    /\ UNCHANGED <<host, config, port, conn, purges, events,
                   stopCalls, stopRes, stopPc, ctxDone>>

Start ==
    /\ startCalls = 0
    /\ stopCalls = 0
    /\ startCalls' = startCalls + 1
    /\ LET r == GetStorageFactory(config.TraceStorage, host)
           id == startCalls + 1
       IN  IF r.err # Nil
               THEN /\ startRes' = Errorf(<<"cannot find storage factory '",
                                            config.TraceStorage, "': ">>, r.err)
                    /\ UNCHANGED <<server, srv, task>>
               ELSE /\ server' = id
                    /\ srv' = [srv EXCEPT ![id] = [inShutdown |-> FALSE,
                                                   factory |-> r.factory]]
                    /\ task' = [task EXCEPT ![id].pc = "spawned"]
                    /\ startRes' = Nil
    /\ UNCHANGED <<host, config, port, conn, purges, events,
                   stopCalls, stopRes, stopPc, ctxDone>>

\* Start called by a host that does not keep to that: a second time, or
\* after a Shutdown. The code is the same; nothing in it looks at what an
\* earlier Start has left in c.server.
StartAgain ==
    /\ startCalls > 0 \/ stopCalls > 0
    /\ startCalls < MaxStarts
    /\ stopPc = "idle"
    /\ startCalls' = startCalls + 1
    /\ LET r == GetStorageFactory(config.TraceStorage, host)
           id == startCalls + 1
       IN  IF r.err # Nil
               THEN /\ startRes' = Errorf(<<"cannot find storage factory '",
                                            config.TraceStorage, "': ">>, r.err)
                    /\ UNCHANGED <<server, srv, task>>
               ELSE /\ server' = id
                    /\ srv' = [srv EXCEPT ![id] = [inShutdown |-> FALSE,
                                                   factory |-> r.factory]]
                    /\ task' = [task EXCEPT ![id].pc = "spawned"]
                    /\ startRes' = Nil
    /\ UNCHANGED <<host, config, port, conn, purges, events,
                   stopCalls, stopRes, stopPc, ctxDone>>

\* func (c *storageCleaner) Dependencies() []component.ID
Dependencies == <<"jaeger_storage">>

\* ------------------------------------------------- the listener goroutine
\* go func() { c.server.ListenAndServe() ... }: the goroutine reads c.server
\* and enters ListenAndServe, which first asks whether the server is
\* shutting down.
ListenAndServe(t) ==
    /\ task[t].pc = "spawned"
    /\ server # 0
    /\ task' = [task EXCEPT ![t] =
            IF srv[server].inShutdown
                THEN [@ EXCEPT !.pc = "returned", !.srv = server,
                               !.err = ErrServerClosed]
                ELSE [@ EXCEPT !.pc = "listen", !.srv = server]]
    /\ UNCHANGED <<host, config, server, srv, port, conn, purges, events,
                   startCalls, startRes, stopCalls, stopRes, stopPc, ctxDone>>

\* net.Listen("tcp", ":" + port): binds the port when it is free; the bind
\* can always fail (the port is held by another process).
Listen(t) ==
    /\ task[t].pc = "listen"
    /\ \/ /\ port = 0
          /\ port' = t
          /\ task' = [task EXCEPT ![t].pc = "bound", ![t].ln = "open"]
       \/ /\ task' = [task EXCEPT ![t].pc = "returned", ![t].err = ErrBind]
          /\ UNCHANGED port
    /\ UNCHANGED <<host, config, server, srv, conn, purges, events,
                   startCalls, startRes, stopCalls, stopRes, stopPc, ctxDone>>

\* Serve whose trackListener does not ask whether the server is shutting down.
ServeNoCheck(t) ==
    /\ task[t].pc = "bound"
    /\ task' = [task EXCEPT ![t].pc = "serving"]
    /\ UNCHANGED <<host, config, server, srv, port, conn, purges, events,
                   startCalls, startRes, stopCalls, stopRes, stopPc, ctxDone>>

\* Server.Serve: trackListener(add) refuses when the server is shutting
\* down; the deferred l.Close() then releases the port.
Serve(t) ==
    /\ task[t].pc = "bound"
    /\ IF srv[task[t].srv].inShutdown
           THEN /\ task' = [task EXCEPT ![t].pc = "returned", ![t].ln = "closed",
                                        ![t].err = ErrServerClosed]
                /\ port' = 0
           ELSE /\ task' = [task EXCEPT ![t].pc = "serving"]
                /\ UNCHANGED port
    /\ UNCHANGED <<host, config, server, srv, conn, purges, events,
                   startCalls, startRes, stopCalls, stopRes, stopPc, ctxDone>>

FreeConns == {c \in Conns : conn[c].st = "free"}

\* l.Accept() returns a connection: Serve records it (StateNew) and starts
\* its goroutine. Connections take the slots in order.
Accept(t) ==
    /\ task[t].pc = "serving"
    /\ task[t].ln = "open"
    /\ FreeConns # {}
    /\ LET c == CHOOSE x \in FreeConns : \A y \in FreeConns : x <= y
       IN  conn' = [conn EXCEPT ![c] = [NoConn EXCEPT !.st = "new",
                                                     !.srv = task[t].srv]]
    /\ UNCHANGED <<host, config, server, srv, task, port, purges, events,
                   startCalls, startRes, stopCalls, stopRes, stopPc, ctxDone>>

\* l.Accept() returns an error: ErrServerClosed when the server is shutting
\* down (Shutdown closed the listener), the error itself otherwise. Serve
\* returns, its defers close the listener and untrack it.
AcceptError(t) ==
    /\ task[t].pc = "serving"
    /\ task' = [task EXCEPT ![t].pc = "returned", ![t].ln = "closed",
                            ![t].err = IF srv[task[t].srv].inShutdown
                                           THEN ErrServerClosed
                                           ELSE ErrAccept]
    /\ port' = IF port = t THEN 0 ELSE port
    /\ UNCHANGED <<host, config, server, srv, conn, purges, events,
                   startCalls, startRes, stopCalls, stopRes, stopPc, ctxDone>>

\* the goroutine's test without errors.Is(err, http.ErrServerClosed).
IsFatalAny(err) == err # Nil

\* err != nil && !errors.Is(err, http.ErrServerClosed)
IsFatal(err) == err # Nil /\ ~ErrorsIs(err, ErrServerClosed)

NewFatalErrorEvent(err) == Errorf(<<"error starting cleaner server: ">>, err)

\* the goroutine's body after ListenAndServe has returned
Report(t) ==
    /\ task[t].pc = "returned"
    /\ task' = [task EXCEPT ![t].pc = "done"]
    /\ events' = IF IsFatal(task[t].err)
                     THEN Append(events, NewFatalErrorEvent(task[t].err))
                     ELSE events
    /\ UNCHANGED <<host, config, server, srv, port, conn, purges,
                   startCalls, startRes, stopCalls, stopRes, stopPc, ctxDone>>

\* ------------------------------------------------------------ connections
\* The route registered without .Methods(http.MethodPost).
RouteAnyMethod(method, path) ==
    IF path # URL THEN 404 ELSE 0

\* r.HandleFunc(URL, purgeHandler).Methods(http.MethodPost): the router's
\* answer for a request, 0 when the route matches and the handler runs.
Route(method, path) ==
    IF path # URL THEN 404
    ELSE IF method # "POST" THEN 405
    ELSE 0

\* The connection's goroutine reads the request and hands it to the router.
ReadRequest(c) ==
    /\ conn[c].st = "new"
    /\ \E m \in Methods, p \in Paths :
        conn' = [conn EXCEPT ![c] =
            IF Route(m, p) = 0
                THEN [@ EXCEPT !.st = "handler", !.method = m, !.path = p]
                ELSE [@ EXCEPT !.st = "closed", !.method = m, !.path = p,
                               !.status = Route(m, p)]]
    /\ UNCHANGED <<host, config, server, srv, task, port, purges, events,
                   startCalls, startRes, stopCalls, stopRes, stopPc, ctxDone>>

\* ReadHeaderTimeout: a connection that sends no request is closed.
ReadHeaderTimeout(c) ==
    /\ conn[c].st = "new"
    /\ conn' = [conn EXCEPT ![c].st = "closed"]
    /\ UNCHANGED <<host, config, server, srv, task, port, purges, events,
                   startCalls, startRes, stopCalls, stopRes, stopPc, ctxDone>>

\* purgeStorage without the type assertion's ok.
IsPurgerUnchecked(factory) == TRUE

\* purger, ok := storageFactory.(storage.Purger)
IsPurger(factory) == factory = "purger"

NotPurgerError ==
    <<"storage ", config.TraceStorage, " does not implement Purger interface">>

\* purgeStorage returning an error that does not wrap Purge's.
PurgeResultUnwrapped(out) ==
    IF out # "ok"
        THEN <<"error purging storage">>
        ELSE Nil

\* purgeStorage's result for the outcome of purger.Purge()
PurgeResult(out) ==
    IF out # "ok"
        THEN Errorf(<<"error purging storage: ">>, <<out>>)
        ELSE Nil

\* purgeStorage calling Purge() twice.
PurgeStorageTwice(c) ==
    /\ conn[c].st = "handler"
    /\ IF IsPurger(srv[conn[c].srv].factory)
           THEN /\ conn' = [conn EXCEPT ![c].st = "purging"]
                /\ purges' = purges + 2
           ELSE /\ conn' = [conn EXCEPT ![c].st = "respond",
                                        ![c].res = NotPurgerError]
                /\ UNCHANGED purges
    /\ UNCHANGED <<host, config, server, srv, task, port, events,
                   startCalls, startRes, stopCalls, stopRes, stopPc, ctxDone>>

\* purgeHandler calls purgeStorage, which asserts the capability and, when
\* the factory has it, calls Purge().
PurgeStorage(c) ==
    /\ conn[c].st = "handler"
    /\ IF IsPurger(srv[conn[c].srv].factory)
           THEN /\ conn' = [conn EXCEPT ![c].st = "purging"]
                /\ purges' = purges + 1
           ELSE /\ conn' = [conn EXCEPT ![c].st = "respond",
                                        ![c].res = NotPurgerError]
                /\ UNCHANGED purges
    /\ UNCHANGED <<host, config, server, srv, task, port, events,
                   startCalls, startRes, stopCalls, stopRes, stopPc, ctxDone>>

\* purgeStorage calling Purge() again when it has failed.
PurgeReturnRetry(c) ==
    /\ conn[c].st = "purging"
    /\ \/ /\ conn' = [conn EXCEPT ![c].st = "respond", ![c].out = "ok",
                                  ![c].res = PurgeResult("ok")]
          /\ UNCHANGED purges
       \/ /\ purges < 2 * MaxConns
          /\ purges' = purges + 1
          /\ UNCHANGED conn
    /\ UNCHANGED <<host, config, server, srv, task, port, events,
                   startCalls, startRes, stopCalls, stopRes, stopPc, ctxDone>>

\* purger.Purge() returns: nil, or one of the backend's errors.
PurgeReturn(c) ==
    /\ conn[c].st = "purging"
    /\ \E out \in {"ok"} \cup PurgeErrors :
        conn' = [conn EXCEPT ![c].st = "respond", ![c].out = out,
                             ![c].res = PurgeResult(out)]
    /\ UNCHANGED <<host, config, server, srv, task, port, purges, events,
                   startCalls, startRes, stopCalls, stopRes, stopPc, ctxDone>>

\* purgeHandler with the error test inverted.
purgeHandlerInverted(err) ==
    IF err = Nil
        THEN [status |-> StatusInternalServerError, body |-> err \o <<"\n">>]
        ELSE [status |-> StatusOK,
              body |-> <<"Purge request processed successfully">>]

\* purgeHandler's response for purgeStorage's result; http.Error writes the
\* message and a newline.
purgeHandler(err) ==
    IF err # Nil
        THEN [status |-> StatusInternalServerError, body |-> err \o <<"\n">>]
        ELSE [status |-> StatusOK,
              body |-> <<"Purge request processed successfully">>]

\* purgeHandler answering from a result that the handlers share: the result
\* of whichever purgeStorage call returned last is what every handler sees.
RespondShared(c) ==
    /\ conn[c].st = "respond"
    /\ \E d \in Conns :
        /\ conn[d].st \in {"respond", "closed"}
        /\ conn[d].method = "POST" /\ conn[d].path = URL
        /\ conn' = [conn EXCEPT ![c].st = "closed",
                                ![c].status = purgeHandler(conn[d].res).status,
                                ![c].body = purgeHandler(conn[d].res).body]
    /\ UNCHANGED <<host, config, server, srv, task, port, purges, events,
                   startCalls, startRes, stopCalls, stopRes, stopPc, ctxDone>>

\* purgeHandler writes the response of its own purgeStorage call; the
\* connection is closed after it (the model serves one request each).
Respond(c) ==
    /\ conn[c].st = "respond"
    /\ conn' = [conn EXCEPT ![c].st = "closed",
                            ![c].status = purgeHandler(conn[c].res).status,
                            ![c].body = purgeHandler(conn[c].res).body]
    /\ UNCHANGED <<host, config, server, srv, task, port, purges, events,
                   startCalls, startRes, stopCalls, stopRes, stopPc, ctxDone>>

\* --------------------------------------------------------------- Shutdown
\* the connections server s still tracks (activeConn) that are not idle
ActiveConns(s) ==
    {c \in Conns : conn[c].srv = s /\ conn[c].st \notin {"free", "closed"}}

\* the goroutines inside Serve with a tracked listener of server s
Tracked(s) == {t \in Tasks : task[t].srv = s /\ task[t].pc = "serving"}

\* Shutdown that returns without closing the server.
ShutdownNoClose ==
    /\ stopPc = "idle"
    /\ stopCalls < MaxStops
    /\ stopCalls' = stopCalls + 1
    /\ \E d \in BOOLEAN : ctxDone' = d
    /\ stopRes' = Nil
    /\ UNCHANGED <<host, config, server, srv, task, port, conn, purges, events,
                   startCalls, startRes, stopPc>>

\* Shutdown without the test c.server != nil.
ShutdownUnguarded ==
    /\ stopPc = "idle"
    /\ stopCalls < MaxStops
    /\ stopCalls' = stopCalls + 1
    /\ \E d \in BOOLEAN : ctxDone' = d
    /\ stopPc' = "wait"
    /\ UNCHANGED stopRes
    /\ srv' = [s \in Tasks |->
            IF s = server THEN [srv[s] EXCEPT !.inShutdown = TRUE] ELSE srv[s]]
    /\ task' = [t \in Tasks |->
            IF t \in Tracked(server)
                THEN [task[t] EXCEPT !.ln = "closed"]
                ELSE task[t]]
    /\ port' = IF port \in Tracked(server) THEN 0 ELSE port
    /\ UNCHANGED <<host, config, server, conn, purges, events,
                   startCalls, startRes>>

\* Shutdown that also sets c.server back to nil.
ShutdownClears ==
    /\ stopPc = "idle"
    /\ stopCalls < MaxStops
    /\ stopCalls' = stopCalls + 1
    /\ \E d \in BOOLEAN : ctxDone' = d
    /\ IF server = 0
           THEN /\ stopRes' = Nil
                /\ UNCHANGED <<stopPc, srv, task, port>>
           ELSE /\ stopPc' = "wait"
                /\ UNCHANGED stopRes
                /\ srv' = [srv EXCEPT ![server].inShutdown = TRUE]
                /\ task' = [t \in Tasks |->
                        IF t \in Tracked(server)
                            THEN [task[t] EXCEPT !.ln = "closed"]
                            ELSE task[t]]
                /\ port' = IF port \in Tracked(server) THEN 0 ELSE port
    /\ server' = 0
    /\ UNCHANGED <<host, config, conn, purges, events, startCalls, startRes>>

\* Shutdown(ctx) is called: without a server it returns nil; otherwise
\* http.Server.Shutdown marks the server as shutting down and closes its
\* tracked listeners.
Shutdown ==
    /\ stopPc = "idle"
    /\ stopCalls < MaxStops
    /\ stopCalls' = stopCalls + 1
    /\ \E d \in BOOLEAN : ctxDone' = d
    /\ IF server = 0
           THEN /\ stopRes' = Nil
                /\ UNCHANGED <<stopPc, srv, task, port>>
           ELSE /\ stopPc' = "wait"
                /\ UNCHANGED stopRes
                /\ srv' = [srv EXCEPT ![server].inShutdown = TRUE]
                /\ task' = [t \in Tasks |->
                        IF t \in Tracked(server)
                            THEN [task[t] EXCEPT !.ln = "closed"]
                            ELSE task[t]]
                /\ port' = IF port \in Tracked(server) THEN 0 ELSE port
    /\ UNCHANGED <<host, config, server, conn, purges, events,
                   startCalls, startRes>>

\* the deadline of the context given to Shutdown passes
Deadline ==
    /\ stopPc # "idle"
    /\ ~ctxDone
    /\ ctxDone' = TRUE
    /\ UNCHANGED <<host, config, server, srv, task, port, conn, purges, events,
                   startCalls, startRes, stopCalls, stopRes, stopPc>>

\* srv.listenerGroup.Wait(): the Serve calls have returned
ShutdownWait ==
    /\ stopPc = "wait"
    /\ Tracked(server) = {}
    /\ stopPc' = "poll"
    /\ UNCHANGED <<host, config, server, srv, task, port, conn, purges, events,
                   startCalls, startRes, stopCalls, stopRes, ctxDone>>

\* Shutdown wrapping the server's result without testing it.
ShutdownResultAlways(err) ==
    Errorf(<<"error shutting down cleaner server: ">>, err)

\* Shutdown dropping the server's error.
ShutdownResultSwallowed(err) == Nil

\* if err := c.server.Shutdown(ctx); err != nil { return fmt.Errorf(...) }
ShutdownResult(err) ==
    IF err # Nil
        THEN Errorf(<<"error shutting down cleaner server: ">>, err)
        ELSE Nil

\* The poll loop asking the context before the connections.
ShutdownPollCtxFirst ==
    /\ stopPc = "poll"
    /\ \/ /\ ctxDone
          /\ stopRes' = ShutdownResult(ErrDeadline)
       \/ /\ ~ctxDone
          /\ ActiveConns(server) = {}
          /\ stopRes' = ShutdownResult(Nil)
    /\ stopPc' = "idle"
    /\ UNCHANGED <<host, config, server, srv, task, port, conn, purges, events,
                   startCalls, startRes, stopCalls, ctxDone>>

\* The poll loop returning nil without waiting for the active connections.
ShutdownPollNoWait ==
    /\ stopPc = "poll"
    /\ stopRes' = ShutdownResult(Nil)
    /\ stopPc' = "idle"
    /\ UNCHANGED <<host, config, server, srv, task, port, conn, purges, events,
                   startCalls, startRes, stopCalls, ctxDone>>

\* Shutdown's poll loop: it returns nil once no connection is active, and
\* the context's error once the context is done; Shutdown of the component
\* returns with that.
ShutdownPoll ==
    /\ stopPc = "poll"
    /\ \/ /\ ActiveConns(server) = {}
          /\ stopRes' = ShutdownResult(Nil)
       \/ /\ ActiveConns(server) # {}
          /\ ctxDone
          /\ stopRes' = ShutdownResult(ErrDeadline)
    /\ stopPc' = "idle"
    /\ UNCHANGED <<host, config, server, srv, task, port, conn, purges, events,
                   startCalls, startRes, stopCalls, ctxDone>>

\* ------------------------------------------------------------- properties
Name == config.TraceStorage
Spawned == {t \in Tasks : task[t].pc # "none"}
Handled == {c \in Conns : conn[c].st = "closed" /\ conn[c].method = "POST"
                          /\ conn[c].path = URL}

\* C1: when the configured backend name is not in the host's registry, Start
\* returns an error wrapping the lookup's error, c.server stays nil, no
\* goroutine is spawned, the port is not bound and no connection exists.
C1_ResolutionError ==
    (host[Name] = "absent" /\ startCalls > 0) =>
        /\ startRes = <<"cannot find storage factory '", Name, "': ">> \o ErrNotFound
        /\ ErrorsIs(startRes, ErrNotFound)
        /\ server = 0
        /\ Spawned = {}
        /\ port = 0
        /\ \A c \in Conns : conn[c].st = "free"

C1_Witness ==
    host[Name] = "absent" /\ startCalls = 1 /\ stopCalls = 0

C3_SuccessResponse ==
    \A c \in Conns :
        (conn[c].st = "closed" /\ conn[c].out = "ok") =>
            /\ conn[c].status = 200
            /\ conn[c].body = <<"Purge request processed successfully">>

C3_Witness ==
    \E c \in Conns : conn[c].st = "closed" /\ conn[c].out = "ok"
                     /\ conn[c].method = "POST"

\* C4: a POST /purge whose Purge() call returned error E is answered 500 with
\* a body that contains E's message, never 200.
C4_FailureResponse ==
    \A c \in Conns :
        (conn[c].st = "closed" /\ conn[c].out \in PurgeErrors) =>
            /\ conn[c].status = 500
            /\ Contains(conn[c].body, <<conn[c].out>>)

C4_Witness ==
    \E c \in Conns : conn[c].st = "closed" /\ conn[c].out = "E2"

\* C5: a request to /purge with a method other than POST is answered by the
\* router (405) and never reaches purgeStorage: Purge() has been called at
\* most once per POST /purge request.
C5_WrongMethodRejected ==
    /\ \A c \in Conns :
        (conn[c].path = URL /\ conn[c].method \notin {"", "POST"}) =>
            /\ conn[c].st = "closed"
            /\ conn[c].status = 405
            /\ conn[c].out = "none"
            /\ conn[c].res = Nil
    /\ purges <= Cardinality({c \in Conns : conn[c].method = "POST"
                                            /\ conn[c].path = URL})

C5_Witness ==
    /\ host[Name] = "purger"
    /\ \E c \in Conns : conn[c].path = URL /\ conn[c].method = "GET"
                        /\ conn[c].st = "closed"

\* C6: a Shutdown call while c.server is nil (Start not called, or Start
\* failed) returns nil at once and changes nothing else: no goroutine, no
\* status event, no listener, c.server still nil.
C6_StopBeforeStartNoOp ==
    [][(server = 0 /\ stopCalls' # stopCalls) =>
          /\ stopRes' = Nil
          /\ stopPc' = "idle"
          /\ UNCHANGED <<server, srv, task, port, conn, purges, events,
                         startCalls, startRes>>]_vars

C6_Witness ==
    /\ server = 0
    /\ startCalls = 1
    /\ startRes # Nil
    /\ stopCalls = 2
    /\ stopRes = Nil

\* a Shutdown call has returned after a Start that succeeded
StopReturned ==
    server # 0 /\ stopCalls > 0 /\ (stopPc = "idle" \/ stopCalls > 1)

AcceptsNothing == \A c \in Conns : conn[c].st = "free" => conn'[c].st = "free"

NoHandlerBegins ==
    \A c \in Conns : conn[c].st = "new" => conn'[c].st # "handler"

\* C7 as claimed: once Shutdown has returned after a successful Start, no
\* connection is accepted and no purgeHandler invocation begins.
C7_Original ==
    [][StopReturned => (AcceptsNothing /\ NoHandlerBegins)]_vars

\* C7, amended: once Shutdown has returned after a successful Start, no
\* connection is accepted in any later state; once a Shutdown has returned
\* nil, no purgeHandler invocation begins either (after a Shutdown that
\* returned the deadline's error, a connection accepted before the listener
\* was closed can still send its request and have it handled).
C7_NoNewConnection ==
    [][/\ StopReturned => AcceptsNothing
       /\ (StopReturned /\ stopRes = Nil) => NoHandlerBegins]_vars

C7_Witness ==
    /\ StopReturned
    /\ stopPc = "idle"
    /\ stopRes = Nil
    /\ \A t \in Spawned : task[t].pc = "done" /\ task[t].err = ErrServerClosed
    /\ \E c \in Conns : conn[c].st = "closed" /\ conn[c].status = 200
    /\ \E c \in Conns : conn[c].st = "free"

Range(q) == {q[i] : i \in 1 .. Len(q)}

Abnormal == {ErrBind, ErrAccept}

\* C8: a fatal status event is reported exactly for the goroutines whose
\* ListenAndServe ended abnormally (the bind failed, Accept failed while the
\* server was not shutting down); a goroutine ended by Shutdown has ended
\* with ErrServerClosed and reports nothing; nothing else reports an event.
C8_FatalIffAbnormal ==
    /\ \A t \in Tasks :
        /\ task[t].pc = "done" =>
              (NewFatalErrorEvent(task[t].err) \in Range(events)
                  <=> task[t].err \in Abnormal)
        /\ task[t].pc \in {"returned", "done"} =>
              /\ task[t].err \in Abnormal \cup {ErrServerClosed}
              /\ task[t].err = ErrServerClosed => srv[task[t].srv].inShutdown
        /\ (task[t].pc = "serving" /\ task[t].ln = "closed") =>
              srv[task[t].srv].inShutdown
    /\ Len(events) = Cardinality({t \in Tasks : task[t].pc = "done"
                                                /\ task[t].err \in Abnormal})

C8_Witness ==
    /\ stopCalls > 0
    /\ \E t \in Tasks : task[t].pc = "done" /\ task[t].err = ErrBind
    /\ Len(events) = 1

\* C9: every answered POST /purge carries the response of its own Purge()
\* call, whatever the other requests did meanwhile: 200 exactly when its own
\* call returned nil, and otherwise 500 with its own error in the body.
C9_OwnResponse ==
    \A c \in Handled :
        conn[c].out # "none" =>
            /\ conn[c].status \in {200, 500}
            /\ conn[c].status = 200 <=> conn[c].out = "ok"
            /\ conn[c].status = 500 =>
                  conn[c].body = <<"error purging storage: ", conn[c].out, "\n">>

\* two requests in flight together with different outcomes: the later one
\* answered first, the earlier one still to be answered
C9_Witness ==
    \E c, d \in Conns :
        /\ c < d
        /\ conn[c].st = "respond" /\ conn[c].out = "E1"
        /\ conn[d].st = "closed" /\ conn[d].out = "ok" /\ conn[d].status = 200

\* C10: a Shutdown that waits while no connection is active returns nil,
\* under fair scheduling of Shutdown and of the listener goroutine.
C10_StopTerminates ==
    (stopPc # "idle" /\ ActiveConns(server) = {})
        ~> (stopPc = "idle" /\ stopRes = Nil)

C10_Witness ==
    /\ server # 0
    /\ stopCalls = 1
    /\ stopPc = "idle"
    /\ stopRes = Nil
    /\ ctxDone
    /\ \E t \in Tasks : task[t].pc = "done" /\ task[t].err = ErrServerClosed
                        /\ task[t].ln = "closed"

ListenerClosed ==
    \A t \in Tasks :
        task[t].srv = server => ~(task[t].pc = "serving" /\ task[t].ln = "open")

\* C12: when Shutdown returns while a connection is still active, the
\* deadline has passed and the result is an error wrapping the context's;
\* the server is shut down all the same: after that return its listener is
\* closed and no connection is accepted.
C12_DeadlineError ==
    [][/\ (stopPc = "poll" /\ stopPc' = "idle" /\ ActiveConns(server) # {}) =>
            /\ ctxDone
            /\ stopRes' = <<"error shutting down cleaner server: ">> \o ErrDeadline
            /\ ErrorsIs(stopRes', ErrDeadline)
       /\ (StopReturned /\ stopRes # Nil) =>
            /\ srv[server].inShutdown
            /\ ListenerClosed
            /\ AcceptsNothing]_vars

C12_Witness ==
    /\ StopReturned
    /\ stopPc = "idle"
    /\ stopRes = <<"error shutting down cleaner server: ">> \o ErrDeadline
    /\ \E c \in Conns : conn[c].st = "purging"
    /\ \E c \in Conns : conn[c].st = "free"

\* the goroutines whose listener is open
Alive == {t \in Tasks : task[t].ln = "open"}

\* C13: whatever Start and Shutdown calls were made, at most one goroutine
\* of the component has an open listener, and it serves the server c.server
\* refers to, so that Shutdown reaches every listener the component opened.
C13_OneOwnedListener ==
    /\ Cardinality(Alive) <= 1
    /\ \A t \in Alive : server # 0 /\ task[t].srv = server

\* the step in which request c learns that its Purge() failed, or answers it
FailedPurgeStep(c) ==
    \/ /\ conn[c].st = "purging"
       /\ conn'[c].st = "respond"
       /\ conn'[c].out \in PurgeErrors
    \/ /\ conn[c].st = "respond"
       /\ conn[c].out \in PurgeErrors
       /\ conn'[c].st = "closed"

\* the requests for which Purge() has been called
Purged == {c \in Conns : conn[c].st = "purging" \/ conn[c].out # "none"}

\* C14: a failed Purge() changes nothing of the service: c.server, the
\* server, the listener goroutine, the port, the status events, the other
\* requests and the calls in progress stay as they are; the request is
\* answered 500; Purge() was called once for it and is not called again.
C14_PurgeFailureFrame ==
    /\ [][\A c \in Conns : FailedPurgeStep(c) =>
            /\ UNCHANGED <<host, config, server, srv, task, port, purges, events,
                           startCalls, startRes, stopCalls, stopRes, stopPc>>
            /\ \A d \in Conns \ {c} : conn'[d] = conn[d]
            /\ conn'[c].st = "closed" => conn'[c].status = 500]_vars
    /\ [](purges = Cardinality(Purged))

\* a request failed and was answered 500; the listener still serves and a
\* later request got its 200
C14_Witness ==
    /\ \E c, d \in Conns :
        /\ c < d
        /\ conn[c].st = "closed" /\ conn[c].out = "E1" /\ conn[c].status = 500
        /\ conn[d].st = "closed" /\ conn[d].out = "ok" /\ conn[d].status = 200
    /\ purges = 2
    /\ events = <<>>
    /\ server # 0 /\ task[server].pc = "serving" /\ task[server].ln = "open"
    /\ stopCalls = 0

\* C15: a Start that resolves the backend returns nil in the step that
\* spawns the goroutine, before the goroutine has taken any step: nothing is
\* bound or accepted yet; and the result stays nil whatever the goroutine
\* does afterwards (not yet run, bound, serving, failed to bind).
C15_StartNonBlocking ==
    /\ [][(startCalls' # startCalls /\ host[Name] # "absent") =>
            /\ startRes' = Nil
            /\ server' = startCalls'
            /\ task'[server'].pc = "spawned"
            /\ UNCHANGED <<port, conn, events>>]_vars
    /\ [](server # 0 => startRes = Nil)

C15_Witness ==
    /\ startRes = Nil
    /\ stopCalls = 0
    /\ server # 0
    /\ task[server].pc = "done"
    /\ task[server].err = ErrBind
    /\ Len(events) = 1

\* a step of a Shutdown call that is not the first: the call, or its return
LaterStopStep ==
    /\ stopCalls' >= 2
    /\ stopCalls' # stopCalls \/ stopPc' # stopPc

LaterStopReturns ==
    /\ stopCalls' >= 2
    /\ \/ stopPc = "poll" /\ stopPc' = "idle"
       \/ stopCalls' # stopCalls /\ stopPc' = "idle"

InShutdown == server # 0 /\ srv[server].inShutdown

\* the goroutine of t has not called net.Listen yet
NotListening(t) == task[t].pc \in {"spawned", "listen"}

\* C17 as claimed: when Shutdown is called after Start has returned and
\* before the goroutine listens, the goroutine's ListenAndServe returns
\* ErrServerClosed, it accepts no connection and no status event is reported.
C17_Original ==
    [][\A t \in Tasks :
        /\ (InShutdown /\ (NotListening(t) \/ task[t].pc = "bound")) =>
            /\ task'[t].pc # "serving"
            /\ task'[t].pc = "returned" => task'[t].err = ErrServerClosed
            /\ AcceptsNothing
            /\ UNCHANGED events
        /\ (task[t].pc = "returned" /\ task[t].err = ErrServerClosed) =>
            UNCHANGED events]_vars

\* C17, amended: when Shutdown is called after Start has returned and before
\* the goroutine listens, the goroutine never serves and accepts no
\* connection. A goroutine that has not entered ListenAndServe gets
\* ErrServerClosed from it; one that is past ListenAndServe's shutting-down
\* test still calls net.Listen, and either binds the port, is refused by
\* Serve with ErrServerClosed and releases the port, or fails to bind and
\* ends with the bind's error. ErrServerClosed reports no status event.
C17_StopBeforeListen ==
    [][\A t \in Tasks :
        /\ (InShutdown /\ (NotListening(t) \/ task[t].pc = "bound")) =>
            /\ AcceptsNothing
            /\ UNCHANGED events
        /\ (InShutdown /\ task[t].pc = "spawned" /\ task'[t] # task[t]) =>
            /\ task'[t].pc = "returned"
            /\ task'[t].err = ErrServerClosed
            /\ task'[t].ln = "none"
        /\ (InShutdown /\ task[t].pc = "listen" /\ task'[t] # task[t]) =>
            \/ task'[t].pc = "bound"
            \/ task'[t].pc = "returned" /\ task'[t].err = ErrBind
        /\ (InShutdown /\ task[t].pc = "bound" /\ task'[t] # task[t]) =>
            /\ task'[t].pc = "returned"
            /\ task'[t].err = ErrServerClosed
            /\ task'[t].ln = "closed"
            /\ port' = 0
        /\ (task[t].pc = "returned" /\ task[t].err = ErrServerClosed) =>
            UNCHANGED events]_vars

C17_Witness ==
    /\ StopReturned
    /\ stopRes = Nil
    /\ task[server].pc = "done"
    /\ task[server].err = ErrServerClosed
    /\ task[server].ln = "none"
    /\ events = <<>>
    /\ port = 0
    /\ \A c \in Conns : conn[c].st = "free"

\* the POST /purge requests that reached purgeStorage on a factory with the
\* Purger capability
PurgeRequests ==
    {c \in Conns : /\ conn[c].st \in {"purging", "respond", "closed"}
                   /\ conn[c].method = "POST"
                   /\ conn[c].path = URL
                   /\ IsPurger(srv[conn[c].srv].factory)}

\* C18: Purge() is called only by purgeStorage while a POST /purge request
\* that the router accepted is handled, once for each such request on a
\* factory that has the capability; a step of Start, Shutdown or anything
\* else calls no Purge(), so the calls never exceed the accepted POST /purge
\* requests.
C18_PurgeOnlyInHandler ==
    /\ [][purges' # purges =>
            /\ purges' = purges + 1
            /\ \E c \in Conns :
                /\ conn[c].st = "handler"
                /\ conn[c].method = "POST"
                /\ conn[c].path = URL
                /\ conn'[c].st = "purging"
                /\ \A d \in Conns \ {c} : conn'[d] = conn[d]
            /\ UNCHANGED <<server, srv, task, port, events, startCalls,
                           startRes, stopCalls, stopRes, stopPc>>]_vars
    /\ [](purges = Cardinality(PurgeRequests))
    /\ [](purges <= Cardinality({c \in Conns : conn[c].st \notin {"free", "new"}
                                               /\ Route(conn[c].method, conn[c].path) = 0}))

C18_Witness ==
    /\ purges = 2
    /\ Cardinality(PurgeRequests) = 2
    /\ startCalls = 1
    /\ StopReturned
    /\ stopPc = "idle"
    /\ \A c \in PurgeRequests : conn[c].st = "closed"

\* C19: when Shutdown has returned nil, no connection of the server is
\* active: every request has its response, no Purge() call is running and
\* none starts later; a Purge() call runs after Shutdown has returned only
\* when Shutdown returned the deadline's error.
C19_NoPurgeAfterCleanStop ==
    /\ [][(StopReturned /\ stopRes = Nil) =>
            /\ purges' = purges
            /\ \A c \in Conns : conn'[c].st = "purging" => conn[c].st = "purging"]_vars
    /\ []((StopReturned /\ stopRes = Nil) =>
            /\ ActiveConns(server) = {}
            /\ \A c \in Conns : conn[c].st # "purging"
            /\ \A c \in Handled : conn[c].status \in {StatusOK, StatusInternalServerError})
    /\ []((StopReturned /\ \E c \in Conns : conn[c].st = "purging") =>
            /\ stopRes = <<"error shutting down cleaner server: ">> \o ErrDeadline
            /\ ErrorsIs(stopRes, ErrDeadline))

C19_Witness ==
    /\ StopReturned
    /\ stopPc = "idle"
    /\ stopRes = Nil
    /\ stopCalls = 1
    /\ purges = 1
    /\ \E c \in Conns : conn[c].st = "closed" /\ conn[c].out = "ok"
                        /\ conn[c].status = StatusOK

Next ==
    \/ Start
    \/ Shutdown
    \/ Deadline
    \/ ShutdownWait
    \/ ShutdownPoll
    \/ \E t \in Tasks :
        \/ ListenAndServe(t)
        \/ Listen(t)
        \/ Serve(t)
        \/ Accept(t)
        \/ AcceptError(t)
        \/ Report(t)
    \/ \E c \in Conns :
        \/ ReadRequest(c)
        \/ ReadHeaderTimeout(c)
        \/ PurgeStorage(c)
        \/ PurgeReturn(c)
        \/ Respond(c)

Spec == Init /\ [][Next]_vars

\* Shutdown runs on the host's goroutine and the listener on its own: the Go
\* scheduler runs each of them when it can take a step. Nothing is assumed
\* of the clients, the backend or the deadline.
ServeReturns(t) == AcceptError(t) /\ task[t].ln = "closed"

Fairness ==
    /\ WF_vars(ShutdownWait)
    /\ WF_vars(ShutdownPoll)
    /\ \A t \in Tasks : WF_vars(ServeReturns(t))

SpecFair == Spec /\ Fairness

\* The component under any sequence of Start and Shutdown calls.
NextRestart == Next \/ StartAgain

SpecRestart == Init /\ [][NextRestart]_vars
====
